---- MODULE Spec2Model ----
(***************************************************************************)
(* A model of the image comparison session of src/main.py: the four pane   *)
(* slots, the key list, the ground truth, the decode tasks of the thread   *)
(* pool and the completion callbacks queued for the Tk main loop.          *)
(*                                                                         *)
(* Python values are represented as follows.  None is the empty tuple and  *)
(* an integer k that may also be None is the one-element tuple <<k>>.      *)
(* A string (file name, key) is a sequence of character codes.  An image   *)
(* is the sequence of its bytes (Image.tobytes()); a pane without image    *)
(* has the empty sequence.  Objects that may be None (ImageSource,         *)
(* ImageView) are records with a field "present".                          *)
(*                                                                         *)
(* Every UI handler runs to its end on the Tk main loop, so a handler is   *)
(* one action; the variable error holds the exception the last step        *)
(* raised ("" if none), and the other variables hold what the handler had  *)
(* assigned when it raised.                                                *)
(***************************************************************************)
EXTENDS Integers, Sequences, FiniteSets, TLC

\* ---------------------------------------------------------------- bounds
\* the largest prefix length the user enters in the dialog besides the default
\* (the dialog allows 1..100)
MaxPrefix == 1
\* the most panes that get a directory (the program has four slots)
MaxSources == 2
\* the most completion callbacks waiting in the Tk timer queue
MaxAfter == 1
\* the most decodes that are still running in the pool after their view was replaced
MaxStale == 1
\* the most wheel events that zoom out to a zoom above 1.0 since the zoom was
\* last 1.0
MaxZoomOut == 1
\* the mouse drags, and the wheel zooms out to a zoom above 1.0, while zoom is
\* at most MaxDragZoomIn zoom-in steps above 1.0 (the wheel also at zoom 100.0)
MaxDragZoomIn == 1

\* ------------------------------------------------------ program constants
NUM_WORKERS == 4
NumPanes == 4
DefaultPrefixLength == 8
DialogMinPrefix == 1
DialogMaxPrefix == 100
IMAGE_GAP == 5
TEXT_BAR_HEIGHT == 20

Panes == 0 .. (NumPanes - 1)

None == << >>
Some(x) == << x >>

Min(a, b) == IF a <= b THEN a ELSE b
Max(a, b) == IF a >= b THEN a ELSE b

\* ------------------------------------------------------- the file system
\* Two directories the user can pick (1, 2) and one path that is no directory (0).
\* A directory is its listing in os.listdir order; an entry has its name (a
\* sequence of character codes), whether its extension is a registered image
\* extension, and the bytes its decode yields (the empty sequence: Image.open
\* or load raises).
\*   1: "aa" (corrupt), "ba", "bb" (no image file), "ca"
\*   2: "b", "cb", "c" (corrupt)
Dirs == {1, 2}
NotADir == 0
Paths == Dirs \cup {NotADir}

File(name, img, pixels) == [name |-> name, img |-> img, pixels |-> pixels]

Listing(d) ==
    CASE d = 1 -> << File(<<1, 1>>, TRUE, << >>),
                     File(<<2, 1>>, TRUE, <<0, 0>>),
                     File(<<2, 2>>, FALSE, << >>),
                     File(<<3, 1>>, TRUE, <<10, 20>>) >>
      [] d = 2 -> << File(<<2>>, TRUE, <<16, 3>>),
                     File(<<3, 2>>, TRUE, <<7, 7>>),
                     File(<<3>>, TRUE, << >>) >>
      [] OTHER -> << >>

isdir(path) == path \in Dirs

\* is_image_file(filename), for the entry e of a listing
is_image_file(e) == e.img

\* ------------------------------------------------------------ ImageSource
\* the prefix lengths of the model: the dialog's and the savestate's
PrefixLengths == (-1 .. MaxPrefix) \cup {DefaultPrefixLength}

\* f[:p] of Python: a negative p drops the last -p characters
Prefix(f, p) ==
    IF p >= 0 THEN SubSeq(f, 1, Min(p, Len(f)))
    ELSE SubSeq(f, 1, Max(Len(f) + p, 0))

\* self.files = {f[:prefix_length]: f for f in os.listdir(path) if is_image_file(f)}:
\* of two files with one prefix the later one in the listing stays
SourceFiles(d, p) ==
    LET L == Listing(d)
        imgs == {j \in DOMAIN L : is_image_file(L[j])}
        keys == {Prefix(L[j].name, p) : j \in imgs}
        last(k) == CHOOSE j \in imgs :
                      /\ Prefix(L[j].name, p) = k
                      /\ \A j2 \in imgs : Prefix(L[j2].name, p) = k => j2 <= j
    IN [k \in keys |-> L[last(k)].name]

\* SourceFiles, tabulated
FilesOf == [d \in Dirs |-> [p \in PrefixLengths |-> SourceFiles(d, p)]]

NoFiles == [k \in {} |-> << >>]
NoSource == [present |-> FALSE, path |-> NotADir, files |-> NoFiles]
ImageSource(path, prefix) ==
    [present |-> TRUE, path |-> path, files |-> FilesOf[path][prefix]]

\* ImageSource.get_file(key): the path of the file of key
NoPath == [dir |-> NotADir, file |-> << >>]
get_file(source, key) == [dir |-> source.path, file |-> source.files[key]]

\* the bytes Image.open(path).load() yields, the empty sequence when it raises
Decode(path) ==
    LET L == Listing(path.dir)
        js == {j \in DOMAIN L : L[j].name = path.file}
    IN IF js = {} THEN << >> ELSE L[CHOOSE j \in js : TRUE].pixels

NoImage == << >>

\* -------------------------------------------------------------- ImageView
NoText == [kind |-> "None", sum |-> 0, n |-> 0]
GTText == [kind |-> "GT", sum |-> 0, n |-> 0]
\* 'PSNR: {psnr:.2f}dB' with psnr = 20 log10(255) - 10 log10(sum / n)
PSNRText(sum, n) == [kind |-> "PSNR", sum |-> sum, n |-> n]

NoView == [present |-> FALSE, path |-> NoPath, future |-> "NONE",
           image |-> NoImage, comparison_text |-> NoText]
\* ImageView(path, future): the future is PENDING in the pool's queue
ImageView(path) == [present |-> TRUE, path |-> path, future |-> "PENDING",
                    image |-> NoImage, comparison_text |-> NoText]

\* future.result() of a finished future: what load_image_worker_thread returned
FutureResult(view) == Decode(view.path)

\* ImageView.get_image: the view after the call; what the call returns is its image
get_image(view) ==
    IF view.image # NoImage THEN view
    ELSE IF view.future = "FINISHED" THEN [view EXCEPT !.image = FutureResult(view)]
    ELSE view

set_gt(view) == [view EXCEPT !.comparison_text = GTText]


\* ------------------------------------------------------------------ PSNR
\* one element of ((im_array - gt_array)**2) on dtype uint8 arrays: the
\* difference and the square both wrap modulo 256
SqErr(c, r) == (((c - r) % 256) * ((c - r) % 256)) % 256

\* the element of a one-dimensional array at position k (1-based) when the
\* array is broadcast to length n
At(a, k) == IF Len(a) = 1 THEN a[1] ELSE a[k]

RECURSIVE SumSqErr(_, _, _)
SumSqErr(c, r, k) ==
    IF k = 0 THEN 0 ELSE SqErr(At(c, k), At(r, k)) + SumSqErr(c, r, k - 1)

\* ImageView.calculate_psnr(ground_truth_image): the view after the call and the
\* exception it raised.  self.image.tobytes() and ground_truth_image.tobytes()
\* raise AttributeError on None; arrays of different lengths (none of length 1)
\* cannot be broadcast; math.log10(0.0) raises ValueError.
calculate_psnr(view, ground_truth_image) ==
    IF view.image = NoImage \/ ground_truth_image = NoImage
    THEN [view |-> view, error |-> "AttributeError"]
    ELSE LET la == Len(view.image)
             lb == Len(ground_truth_image)
             n == Max(la, lb)
         IN IF la # lb /\ la # 1 /\ lb # 1
            THEN [view |-> view, error |-> "ValueError"]
            ELSE LET sum == SumSqErr(view.image, ground_truth_image, n)
                 IN IF sum = 0
                    THEN [view |-> view, error |-> "ValueError"]
                    ELSE [view |-> [view EXCEPT !.comparison_text = PSNRText(sum, n)],
                          error |-> ""]

\* -------------------------------------------------------------- key list
\* the order of Python's str comparison
RECURSIVE LexLess(_, _)
LexLess(a, b) ==
    IF a = << >> THEN b # << >>
    ELSE IF b = << >> THEN FALSE
    ELSE IF a[1] # b[1] THEN a[1] < b[1]
    ELSE LexLess(Tail(a), Tail(b))

\* list(common_keys) followed by .sort()
RECURSIVE SortKeys(_)
SortKeys(S) ==
    IF S = {} THEN << >>
    ELSE LET m == CHOOSE x \in S : \A y \in S : x = y \/ LexLess(x, y)
         IN << m >> \o SortKeys(S \ {m})

\* CommonKeys with the empty panes counted among the sources
CommonKeys_AllPanes(sources) ==
    {k \in UNION {DOMAIN sources[i].files : i \in Panes} :
        \A i \in Panes : k \in DOMAIN sources[i].files}

\* set.intersection(*(set(source.files.keys()) for source in available_sources))
CommonKeys(sources) ==
    LET available == {i \in Panes : sources[i].present}
    IN {k \in UNION {DOMAIN sources[i].files : i \in available} :
            \A i \in available : k \in DOMAIN sources[i].files}

\* ClampKey without the min of line 248
ClampKey_NoMin(ck, n) ==
    IF n = 0 THEN None
    ELSE IF ck = None THEN Some(0)
    ELSE ck

\* the index update_key_list leaves in current_key for a key list of length n
ClampKey(ck, n) ==
    IF n = 0 THEN None
    ELSE IF ck = None THEN Some(0)
    ELSE Some(Min(ck[1], n - 1))

\* update_key_list, lines 236-248: set.intersection() without an argument
\* raises TypeError before key_list is assigned
update_key_list(sources, keys, ck) ==
    IF \A i \in Panes : ~sources[i].present
    THEN [key_list |-> keys, current_key |-> ck, error |-> "TypeError"]
    ELSE LET kl == SortKeys(CommonKeys(sources))
         IN [key_list |-> kl, current_key |-> ClampKey(ck, Len(kl)), error |-> ""]

\* ----------------------------------------------------------- load_images
\* load_images that keeps the view a pane already has
load_images_Reuse(views, sources, keys, ck) ==
    IF ck = None
    THEN [views |-> [i \in Panes |-> NoView], error |-> "", reset |-> FALSE]
    ELSE IF ck[1] >= Len(keys) \/ ck[1] < 0 - Len(keys)
    THEN [views |-> views, error |-> "IndexError", reset |-> FALSE]
    ELSE LET key == keys[(ck[1] % Len(keys)) + 1]
         IN [views |-> [i \in Panes |->
                          IF sources[i].present /\ ~views[i].present
                          THEN ImageView(get_file(sources[i], key))
                          ELSE views[i]],
             error |-> "", reset |-> TRUE]

\* load_images, lines 261-282: the views after the call, the exception, and
\* whether the lines that reset the viewport were reached.  key_list[k] accepts
\* -len <= k < len.
load_images(views, sources, keys, ck) ==
    IF ck = None
    THEN [views |-> [i \in Panes |-> NoView], error |-> "", reset |-> FALSE]
    ELSE IF ck[1] >= Len(keys) \/ ck[1] < 0 - Len(keys)
    THEN [views |-> views, error |-> "IndexError", reset |-> FALSE]
    ELSE LET key == keys[(ck[1] % Len(keys)) + 1]
         IN [views |-> [i \in Panes |->
                          IF sources[i].present
                          THEN ImageView(get_file(sources[i], key))
                          ELSE views[i]],
             error |-> "", reset |-> TRUE]

\* show(redraw_cells) with a mapped window: each redrawn cell with a view asks
\* the view for its image
show(views, redraw_cells) ==
    [i \in Panes |-> IF i \in redraw_cells /\ views[i].present
                     THEN get_image(views[i]) ELSE views[i]]

\* -------------------------------------------------------------- handlers
\* menu_set_gt, lines 224-229, from pane i on
RECURSIVE SetGtLoop(_, _, _)
SetGtLoop(views, gt, i) ==
    IF i >= NumPanes THEN [views |-> views, error |-> ""]
    ELSE IF ~views[i].present THEN SetGtLoop(views, gt, i + 1)
    ELSE IF i = gt THEN SetGtLoop([views EXCEPT ![i] = set_gt(@)], gt, i + 1)
    ELSE IF views[gt].present /\ views[gt].image # NoImage
    THEN LET r == calculate_psnr(views[i], views[gt].image)
         IN IF r.error # "" THEN [views |-> views, error |-> r.error]
            ELSE SetGtLoop([views EXCEPT ![i] = r.view], gt, i + 1)
    ELSE SetGtLoop(views, gt, i + 1)

\* menu_set_gt, lines 224-231: the loop, then show()
set_gt_views(views, index) ==
    LET r == SetGtLoop(views, index, 0)
    IN IF r.error # "" THEN r ELSE [views |-> show(r.views, Panes), error |-> ""]

\* on_image_load_main_thread, lines 300-304, from pane i on (index = gt_index)
RECURSIVE GtLoadedLoop(_, _, _)
GtLoadedLoop(views, index, i) ==
    IF i >= NumPanes THEN [views |-> views, error |-> ""]
    ELSE IF i = index
    THEN IF ~views[i].present THEN [views |-> views, error |-> "AttributeError"]
         ELSE GtLoadedLoop([views EXCEPT ![i] = set_gt(@)], index, i + 1)
    ELSE IF ~views[i].present THEN [views |-> views, error |-> "AttributeError"]
    ELSE LET v1 == [views EXCEPT ![i] = get_image(@)]
         IN IF v1[i].image = NoImage THEN GtLoadedLoop(v1, index, i + 1)
            ELSE LET v2 == [v1 EXCEPT ![index] = get_image(@)]
                     r == calculate_psnr(v2[i], v2[index].image)
                 IN IF r.error # "" THEN [views |-> v2, error |-> r.error]
                    ELSE GtLoadedLoop([v2 EXCEPT ![i] = r.view], index, i + 1)

\* on_image_load_main_thread, lines 306-310 (index # gt_index); image_views[g]
\* accepts -4 <= g < 4
OtherLoaded(views, gt, index) ==
    IF gt = None THEN [views |-> views, error |-> ""]
    ELSE IF gt[1] >= NumPanes \/ gt[1] < 0 - NumPanes
    THEN [views |-> views, error |-> "IndexError"]
    ELSE LET g == gt[1] % NumPanes
         IN IF ~views[g].present THEN [views |-> views, error |-> ""]
            ELSE LET v1 == [views EXCEPT ![g] = get_image(@)]
                 IN IF v1[g].image = NoImage THEN [views |-> v1, error |-> ""]
                    ELSE LET r == calculate_psnr(v1[index], v1[g].image)
                         IN [views |-> [v1 EXCEPT ![index] = r.view], error |-> r.error]

\* on_image_load_main_thread(index), lines 294-317
on_image_load(views, gt, index) ==
    IF ~views[index].present THEN [views |-> views, error |-> "AttributeError"]
    ELSE LET v0 == [views EXCEPT ![index] = get_image(@)]
             r == IF gt = Some(index) THEN GtLoadedLoop(v0, index, 0)
                  ELSE OtherLoaded(v0, gt, index)
         IN IF r.error # "" THEN r
            ELSE [views |-> show(r.views, IF gt = Some(index) THEN Panes ELSE {index}),
                  error |-> ""]

\* NextIndex that stops at the last key
NextIndex_NoWrap(ck, n) == Min(ck + 1, n - 1)

\* next_image and prev_image, lines 320 and 326
NextIndex(ck, n) == (ck + 1) % n
PrevIndex(ck, n) == (ck + n - 1) % n


\* --------------------------------------------------------------- viewport
\* zoom and the coordinates of crop_center are floats; a float is modelled by
\* the nearest multiple of 1/Scale, as the number of these units
Scale == 10 ^ 3
One == Scale
Half == Scale \div 2

\* a / b for b > 0, rounded to the nearest integer
RDiv(a, b) == (2 * a + b) \div (2 * b)

\* the wheel events: Button-4 and Button-5 of X11, MouseWheel with its delta
WheelEvents ==
    {[num |-> 4, delta |-> 0], [num |-> 5, delta |-> 0],
     [num |-> 0, delta |-> 120], [num |-> 0, delta |-> -120], [num |-> 0, delta |-> 0]}

\* on_zoom, lines 332-338
WheelDelta(event) ==
    IF event.num = 4 THEN 1
    ELSE IF event.num = 5 THEN -1
    ELSE IF event.delta # 0 THEN (IF event.delta > 0 THEN 1 ELSE -1)
    ELSE 0

\* on_zoom, line 340: factor = 1.1 if delta > 0 else 0.9
ZoomFactor(delta) == IF delta > 0 THEN [n |-> 11, d |-> 10] ELSE [n |-> 9, d |-> 10]

ZoomMin == One
ZoomMax == 100 * Scale

\* on_zoom, line 341: max(1.0, min(self.zoom * factor, 100.0))
ZoomBy(z, delta) ==
    LET f == ZoomFactor(delta)
    IN Max(ZoomMin, Min(RDiv(z * f.n, f.d), ZoomMax))

\* half_crop_size = 0.5 / self.zoom, lines 343 and 374
half_crop_size(z) == RDiv(Half * Scale, z)

\* ClampCenter without the upper limit
ClampCenter_NoUpper(c, z) == Max(c, half_crop_size(z))

\* min(max(c, half_crop_size), 1.0 - half_crop_size), lines 346-347 and 376-377
ClampCenter(c, z) == Min(Max(c, half_crop_size(z)), One - half_crop_size(z))

\* current_cell_size, lines 387-391, for a canvas of size <<w, h>>
current_cell_size(canvas) ==
    << (canvas[1] - IMAGE_GAP) \div 2,
       (canvas[2] - IMAGE_GAP - 2 * TEXT_BAR_HEIGHT) \div 2 >>

\* the canvas of the mapped window: cells of 600 x 300 pixels
Canvas == << 1205, 645 >>

\* where the mouse is in a button or motion event: two corners of a cell
MousePoints == { << 0, 300 >>, << 600, 0 >> }

\* the zoom after n zoom-in steps from 1.0
RECURSIVE ZoomInTimes(_)
ZoomInTimes(n) == IF n = 0 THEN One ELSE ZoomBy(ZoomInTimes(n - 1), 1)

\* the zoom levels at which the model moves the mouse with the button down
DragZoom(z) == z <= ZoomInTimes(MaxDragZoomIn)

\* d / (cell * self.zoom), lines 371-372, for d pixels
DragShift(d, cell, z) ==
    IF d >= 0 THEN RDiv(d * Scale * Scale, cell * z)
    ELSE 0 - RDiv((0 - d) * Scale * Scale, cell * z)

\* ------------------------------------------------------------------ state
VARIABLES
    image_sources,   \* [Panes -> ImageSource or NoSource]
    image_views,     \* [Panes -> ImageView or NoView]
    key_list,        \* the sorted common keys
    current_key,     \* None or <<index into key_list>>
    gt_index,        \* None or <<pane>>
    prefix_length,
    zoom,            \* the viewport: zoom and crop_center in units of 1/Scale
    crop_center,
    dragging,
    start_drag_crop_center,
    start_drag_mouse,
    zoom_outs,       \* how many wheel events zoomed out since zoom was last 1.0
                     \* (bounds the zoom levels of the model)
    afterq,          \* root.after(80, on_image_load_main_thread, index) calls not
                     \* yet run, oldest first.  Beside the index an entry records
                     \* (for the properties only) "late": the view whose decode
                     \* made the call has been replaced since the decode was
                     \* submitted, and "changed": the active key has changed since
    stale,           \* the decodes of replaced views that are still running and
                     \* will succeed: [Panes -> [same, changed |-> how many]], by
                     \* whether the active key has changed since they were submitted
    error,           \* the exception the last step raised, "" if none
    phase            \* "startup" before the savestate is read, "running" in the
                     \* main loop, "crashed" when __init__ raised

vars == << image_sources, image_views, key_list, current_key, gt_index,
           prefix_length, zoom, crop_center, dragging, start_drag_crop_center,
           start_drag_mouse, zoom_outs, afterq, stale, error, phase >>

session == << image_sources, key_list, current_key, gt_index, prefix_length >>
viewport == << zoom, crop_center, dragging, start_drag_crop_center,
              start_drag_mouse, zoom_outs >>
pool == << afterq, stale >>

\* load_images that leaves self.dragging as it is
DraggingAfterLoad_Kept == dragging

\* self.dragging after load_images, line 282
DraggingAfterLoad == FALSE

NoStale == [same |-> 0, changed |-> 0]

\* key_list[current_key], None without a current key
ActiveKey(keys, ck) ==
    IF ck = None \/ keys = << >> THEN None
    ELSE IF ck[1] >= Len(keys) \/ ck[1] < 0 - Len(keys) THEN None
    ELSE Some(keys[(ck[1] % Len(keys)) + 1])

\* ImageCompareApp.__init__, lines 70-86
InitFields ==
    /\ image_sources = [i \in Panes |-> NoSource]
    /\ image_views = [i \in Panes |-> NoView]
    /\ key_list = << >>
    /\ current_key = None
    /\ gt_index = None
    /\ prefix_length = DefaultPrefixLength
    /\ zoom = One
    /\ crop_center = << Half, Half >>
    /\ dragging = FALSE
    /\ start_drag_crop_center = << 0, 0 >>
    /\ start_drag_mouse = << 0, 0 >>
    /\ zoom_outs = 0
    /\ afterq = << >>
    /\ stale = [i \in Panes |-> NoStale]
    /\ error = ""

\* the session after construction without a savestate file
Init == InitFields /\ phase = "running"

\* ------------------------------------------------------------- the pool
RECURSIVE SumOver(_, _)
SumOver(f, S) ==
    IF S = {} THEN 0
    ELSE LET x == CHOOSE y \in S : TRUE IN f[x] + SumOver(f, S \ {x})

StaleTotal(st) == SumOver([i \in Panes |-> st[i].same + st[i].changed], Panes)

\* the worker threads that are inside load_image_worker_thread
Busy ==
    Cardinality({i \in Panes : image_views[i].future \in {"RUNNING", "SIGNALLED"}})
        + StaleTotal(stale)

\* load_images, lines 263-265 and 277: future.cancel() removes a PENDING task
\* from the queue and leaves a running one running; every view is replaced, so
\* a running decode that will succeed stays in the pool without a view
StaleAfterLoad(views, st, keychange) ==
    [i \in Panes |->
        LET more == IF /\ views[i].present
                       /\ views[i].future = "RUNNING"
                       /\ Decode(views[i].path) # NoImage
                    THEN 1 ELSE 0
        IN IF keychange
           THEN [same |-> 0, changed |-> st[i].same + st[i].changed + more]
           ELSE [same |-> st[i].same + more, changed |-> st[i].changed]]

\* every queued callback now belongs to a replaced view
AllLate(q, keychange) ==
    [k \in DOMAIN q |-> [index |-> q[k].index, late |-> TRUE,
                         changed |-> q[k].changed \/ keychange]]

\* the part of a handler from load_images() on: load_images(), show()
\* (lines 189-190, 195-196, 216-217, 321-322, 327-328)
LoadAndShow(sources, keys, ck) ==
    LET l == load_images(image_views, sources, keys, ck)
        keychange == ActiveKey(keys, ck) # ActiveKey(key_list, current_key)
    IN /\ image_views' = (IF l.error = "" THEN show(l.views, Panes) ELSE l.views)
       /\ error' = l.error
       /\ stale' = StaleAfterLoad(image_views, stale, keychange)
       /\ StaleTotal(stale') <= MaxStale
       /\ afterq' = AllLate(afterq, keychange)
       /\ IF l.reset
          THEN /\ zoom' = One
               /\ crop_center' = << Half, Half >>
               /\ dragging' = DraggingAfterLoad
               /\ zoom_outs' = 0
               /\ UNCHANGED << start_drag_crop_center, start_drag_mouse >>
          ELSE UNCHANGED viewport

\* --------------------------------------------------------------- actions
\* SourcesAfterFailure that empties the slot before the source is constructed
SourcesAfterFailure_Cleared(sources, index) == [sources EXCEPT ![index] = NoSource]

\* menu_change_view, line 183, when ImageSource(path, prefix_length) raises: the
\* slot is assigned only after the constructor has returned
SourcesAfterFailure(sources, index) == sources

\* menu_change_view(index) with the directory dialog returning path
menu_change_view(index, path) ==
    /\ phase = "running"
    /\ \/ image_sources[index].present
       \/ Cardinality({i \in Panes : image_sources[i].present}) < MaxSources
    /\ IF ~isdir(path)
       THEN /\ error' = "AssertionError"
            /\ image_sources' = SourcesAfterFailure(image_sources, index)
            /\ UNCHANGED << key_list, current_key, gt_index, prefix_length,
                            image_views, viewport, pool, phase >>
       ELSE LET srcs == [image_sources EXCEPT ![index] = ImageSource(path, prefix_length)]
                u == update_key_list(srcs, key_list, current_key)
            IN /\ image_sources' = srcs
               /\ gt_index' = (IF gt_index = Some(index) THEN None ELSE gt_index)
               /\ key_list' = u.key_list
               /\ current_key' = u.current_key
               /\ LoadAndShow(srcs, u.key_list, u.current_key)
               /\ UNCHANGED << prefix_length, phase >>

\* menu_go_to_key(index), an entry of the images menu
menu_go_to_key(index) ==
    /\ phase = "running"
    /\ index \in 0 .. (Len(key_list) - 1)
    /\ current_key' = Some(index)
    /\ LoadAndShow(image_sources, key_list, current_key')
    /\ UNCHANGED << image_sources, key_list, gt_index, prefix_length, phase >>

\* menu_enter_prefix_length with the dialog returning result
menu_enter_prefix_length(result) ==
    /\ phase = "running"
    /\ prefix_length' = result
    /\ LET srcs == [i \in Panes |-> IF image_sources[i].present
                                    THEN ImageSource(image_sources[i].path, result)
                                    ELSE NoSource]
           u == update_key_list(srcs, key_list, current_key)
       IN /\ image_sources' = srcs
          /\ IF u.error # ""
             THEN /\ error' = u.error
                  /\ UNCHANGED << image_views, key_list, current_key, viewport, pool >>
             ELSE /\ key_list' = u.key_list
                  /\ current_key' = u.current_key
                  /\ LoadAndShow(srcs, u.key_list, u.current_key)
    /\ UNCHANGED << gt_index, phase >>

\* menu_set_gt(index); the menu entry of a pane is enabled once it has a source
menu_set_gt(index) ==
    /\ phase = "running"
    /\ image_sources[index].present
    /\ gt_index' = Some(index)
    /\ LET r == set_gt_views(image_views, index)
       IN image_views' = r.views /\ error' = r.error
    /\ UNCHANGED << image_sources, key_list, current_key, prefix_length,
                    viewport, pool, phase >>

\* next_image: None + 1 raises TypeError, a modulo by len 0 ZeroDivisionError
next_image ==
    /\ phase = "running"
    /\ IF current_key = None \/ Len(key_list) = 0
       THEN /\ error' = (IF current_key = None THEN "TypeError" ELSE "ZeroDivisionError")
            /\ UNCHANGED << session, image_views, viewport, pool, phase >>
       ELSE /\ current_key' = Some(NextIndex(current_key[1], Len(key_list)))
            /\ LoadAndShow(image_sources, key_list, current_key')
            /\ UNCHANGED << image_sources, key_list, gt_index, prefix_length, phase >>

\* prev_image
prev_image ==
    /\ phase = "running"
    /\ IF current_key = None \/ Len(key_list) = 0
       THEN /\ error' = (IF current_key = None THEN "TypeError" ELSE "ZeroDivisionError")
            /\ UNCHANGED << session, image_views, viewport, pool, phase >>
       ELSE /\ current_key' = Some(PrevIndex(current_key[1], Len(key_list)))
            /\ LoadAndShow(image_sources, key_list, current_key')
            /\ UNCHANGED << image_sources, key_list, gt_index, prefix_length, phase >>

\* after_resize: show()
after_resize ==
    /\ phase = "running"
    /\ image_views' = show(image_views, Panes)
    /\ image_views' # image_views
    /\ error' = ""
    /\ UNCHANGED << session, viewport, pool, phase >>

\* a pool thread takes the task of pane index from the queue
worker_start(index) ==
    /\ phase = "running"
    /\ image_views[index].future = "PENDING"
    /\ Busy < NUM_WORKERS
    /\ image_views' = [image_views EXCEPT ![index].future = "RUNNING"]
    /\ error' = ""
    /\ UNCHANGED << session, viewport, pool, phase >>

\* load_image_worker_thread, lines 287-288 raise: return None
worker_decode_fails(index) ==
    /\ phase = "running"
    /\ image_views[index].future = "RUNNING"
    /\ Decode(image_views[index].path) = NoImage
    /\ image_views' = [image_views EXCEPT ![index].future = "FINISHED"]
    /\ error' = ""
    /\ UNCHANGED << session, viewport, pool, phase >>

\* load_image_worker_thread, lines 287-289: the decode succeeds and the thread
\* calls root.after
worker_after(index) ==
    /\ phase = "running"
    /\ image_views[index].future = "RUNNING"
    /\ Decode(image_views[index].path) # NoImage
    /\ Len(afterq) < MaxAfter
    /\ image_views' = [image_views EXCEPT ![index].future = "SIGNALLED"]
    /\ afterq' = Append(afterq, [index |-> index, late |-> FALSE, changed |-> FALSE])
    /\ error' = ""
    /\ UNCHANGED << session, viewport, stale, phase >>

\* load_image_worker_thread, line 290: return image, the future is finished
worker_return(index) ==
    /\ phase = "running"
    /\ image_views[index].future = "SIGNALLED"
    /\ image_views' = [image_views EXCEPT ![index].future = "FINISHED"]
    /\ error' = ""
    /\ UNCHANGED << session, viewport, pool, phase >>

\* lines 287-289 for a decode whose view has been replaced
stale_worker_after(index, changed) ==
    /\ phase = "running"
    /\ (IF changed THEN stale[index].changed ELSE stale[index].same) > 0
    /\ Len(afterq) < MaxAfter
    /\ stale' = (IF changed THEN [stale EXCEPT ![index].changed = @ - 1]
                 ELSE [stale EXCEPT ![index].same = @ - 1])
    /\ afterq' = Append(afterq, [index |-> index, late |-> TRUE, changed |-> changed])
    /\ error' = ""
    /\ UNCHANGED << session, image_views, viewport, phase >>

\* the Tk main loop runs the oldest due callback: on_image_load_main_thread(index)
on_image_load_main_thread ==
    /\ phase = "running"
    /\ afterq # << >>
    /\ LET r == on_image_load(image_views, gt_index, Head(afterq).index)
       IN image_views' = r.views /\ error' = r.error
    /\ afterq' = Tail(afterq)
    /\ UNCHANGED << session, viewport, stale, phase >>

\* what the user enters in the prefix length dialog
DialogPrefixes ==
    {p \in (1 .. MaxPrefix) \cup {DefaultPrefixLength} :
        DialogMinPrefix <= p /\ p <= DialogMaxPrefix}

\* the panes the user assigns directories to while decodes run
UserPanes == {0, 2}

\* the steps of the user with the pool at work: directories for the panes of
\* UserPanes
UserStep ==
    \/ \E index \in UserPanes, path \in Dirs : menu_change_view(index, path)
    \/ \E index \in Panes : menu_go_to_key(index)
    \/ \E result \in DialogPrefixes : menu_enter_prefix_length(result)
    \/ \E index \in Panes : menu_set_gt(index)
    \/ next_image
    \/ prev_image

PoolStep ==
    \/ \E index \in Panes : worker_start(index)
    \/ \E index \in Panes : worker_decode_fails(index)
    \/ \E index \in Panes : worker_after(index)
    \/ \E index \in Panes : worker_return(index)
    \/ \E index \in Panes, changed \in BOOLEAN : stale_worker_after(index, changed)

Next == UserStep \/ after_resize \/ PoolStep \/ on_image_load_main_thread

\* the session with its thread pool
Spec == Init /\ [][Next]_vars

\* the handlers of the user's operations alone, on any pane and with any path,
\* while no pool thread is scheduled
NextUI ==
    \/ \E index \in Panes, path \in Paths : menu_change_view(index, path)
    \/ \E index \in Panes : menu_go_to_key(index)
    \/ \E result \in DialogPrefixes : menu_enter_prefix_length(result)
    \/ \E index \in Panes : menu_set_gt(index)
    \/ next_image
    \/ prev_image

SpecUI == Init /\ [][NextUI]_vars

\* ------------------------------------------------------- zoom and drag
\* on_zoom(event), lines 331-350
on_zoom(event) ==
    /\ phase = "running"
    /\ LET delta == WheelDelta(event)
           z == ZoomBy(zoom, delta)
       IN /\ \/ delta > 0
             \/ z = One
             \/ zoom_outs < MaxZoomOut /\ (DragZoom(zoom) \/ zoom = ZoomMax)
          /\ zoom' = z
          /\ zoom_outs' = (IF z = One THEN 0
                           ELSE IF delta > 0 THEN zoom_outs ELSE zoom_outs + 1)
          /\ crop_center' = << ClampCenter(crop_center[1], z),
                               ClampCenter(crop_center[2], z) >>
    /\ image_views' = show(image_views, Panes)
    /\ error' = ""
    /\ UNCHANGED << session, dragging, start_drag_crop_center, start_drag_mouse,
                    pool, phase >>

\* start_drag(event), lines 352-355, with the mouse at point
start_drag(point) ==
    /\ phase = "running"
    /\ DragZoom(zoom)
    /\ dragging' = TRUE
    /\ start_drag_mouse' = point
    /\ start_drag_crop_center' = crop_center
    /\ error' = ""
    /\ UNCHANGED << session, image_views, zoom, crop_center, zoom_outs, pool, phase >>

\* stop_drag(event), lines 357-359
stop_drag ==
    /\ phase = "running"
    /\ dragging' = FALSE
    /\ image_views' = show(image_views, Panes)
    /\ error' = ""
    /\ UNCHANGED << session, zoom, crop_center, start_drag_crop_center,
                    start_drag_mouse, zoom_outs, pool, phase >>

\* do_drag(event), lines 361-380, with the mouse at point
do_drag(point) ==
    /\ phase = "running"
    /\ dragging => DragZoom(zoom)
    /\ error' = ""
    /\ IF ~dragging
       THEN UNCHANGED << session, image_views, viewport, pool, phase >>
       ELSE LET dx == point[1] - start_drag_mouse[1]
                dy == point[2] - start_drag_mouse[2]
                cell == current_cell_size(Canvas)
                cx == start_drag_crop_center[1] - DragShift(dx, cell[1], zoom)
                cy == start_drag_crop_center[2] - DragShift(dy, cell[2], zoom)
            IN /\ crop_center' = << ClampCenter(cx, zoom), ClampCenter(cy, zoom) >>
               /\ image_views' = show(image_views, Panes)
               /\ UNCHANGED << session, zoom, dragging, start_drag_crop_center,
                               start_drag_mouse, zoom_outs, pool, phase >>

\* the panes that get a directory while the viewport is in use
ViewPanes == {0}

\* the mouse and wheel events together with navigation over the keys of one
\* source
NextView ==
    \/ \E index \in ViewPanes, path \in Dirs : menu_change_view(index, path)
    \/ \E index \in Panes : menu_go_to_key(index)
    \/ next_image
    \/ prev_image
    \/ \E event \in WheelEvents : on_zoom(event)
    \/ \E point \in MousePoints : start_drag(point)
    \/ stop_drag
    \/ \E point \in MousePoints : do_drag(point)

SpecView == Init /\ [][NextView]_vars

\* ---------------------------------------------------------------- startup
\* the integers a savestate holds for key_index and gt_index
SavedInts == -1 .. NumPanes

\* A savestate file whose fields have the types save_settings writes: a path
\* per pane ('' and a path that is no directory are skipped alike), key_index
\* and gt_index an integer or null, prefix_length an integer.
Savestates ==
    [sources : [Panes -> Paths],
     key_index : {None} \cup {Some(k) : k \in SavedInts},
     gt_index : {None} \cup {Some(k) : k \in SavedInts},
     prefix_length : PrefixLengths]

\* ImageCompareApp.__init__, lines 133-152, with the savestate settings.  An
\* exception leaves __init__ and ends the program.
load_savestate(settings) ==
    /\ phase = "startup"
    /\ prefix_length' = settings.prefix_length
    /\ LET srcs == [i \in Panes |->
                      IF isdir(settings.sources[i])
                      THEN ImageSource(settings.sources[i], settings.prefix_length)
                      ELSE NoSource]
           u == update_key_list(srcs, key_list, current_key)
           ck == IF settings.key_index # None /\ Len(u.key_list) > 0
                 THEN Some(Min(settings.key_index[1], Len(u.key_list)))
                 ELSE u.current_key
           gt == IF settings.gt_index # None THEN settings.gt_index ELSE gt_index
           l == load_images(image_views, srcs, u.key_list, ck)
       IN /\ image_sources' = srcs
          /\ IF u.error # ""
             THEN /\ error' = u.error
                  /\ phase' = "crashed"
                  /\ UNCHANGED << key_list, current_key, gt_index, image_views >>
             ELSE /\ key_list' = u.key_list
                  /\ current_key' = ck
                  /\ gt_index' = gt
                  /\ image_views' = l.views
                  /\ error' = l.error
                  /\ phase' = (IF l.error = "" THEN "running" ELSE "crashed")
    /\ UNCHANGED << viewport, pool >>

\* __init__ before line 133
InitStartup == InitFields /\ phase = "startup"

NextStartup == \E settings \in Savestates : load_savestate(settings)

\* the start of the program with a savestate file
SpecStartup == InitStartup /\ [][NextStartup]_vars

\* ================================================================ claims
Sourced == {i \in Panes : image_sources[i].present}
Viewed == {i \in Panes : image_views[i].present}
Range(q) == {q[k] : k \in DOMAIN q}

\* the label calculate_psnr gives image against ground_truth_image
PsnrOf(image, ground_truth_image) ==
    calculate_psnr([ImageView(NoPath) EXCEPT !.image = image],
                   ground_truth_image).view.comparison_text

\* the images and labels of all views
Shown(views) == [i \in Panes |-> << views[i].image, views[i].comparison_text >>]

\* C1: a completion callback that runs after the active key has changed since
\* its decode was submitted, on a pane that has a view for the new key, raises
\* no error and leaves the image and the label of every view as they were.
C1_LateCompletionIgnored ==
    [][(/\ on_image_load_main_thread
        /\ Head(afterq).changed
        /\ image_views[Head(afterq).index].present)
          => (error' = "" /\ Shown(image_views') = Shown(image_views))]_vars

\* C2: with a ground truth among the panes that have a source and every decode
\* of the active key yielding an image, all different: the completion handler
\* of a decode whose worker has returned raises no error, and once every decode
\* has finished and its callback has run the ground-truth pane is labelled GT
\* and every other pane carries the PSNR against the ground-truth image.
C2_Premise ==
    /\ gt_index # None
    /\ gt_index[1] \in Viewed
    /\ \A i \in Viewed : Decode(image_views[i].path) # NoImage
    /\ \A i, j \in Viewed : i # j => Decode(image_views[i].path) # Decode(image_views[j].path)

C2_AllHandled ==
    /\ \A i \in Viewed : image_views[i].future = "FINISHED"
    /\ \A k \in DOMAIN afterq : afterq[k].late
    /\ StaleTotal(stale) = 0

C2_Labels ==
    \A i \in Viewed :
        image_views[i].comparison_text =
            IF i = gt_index[1] THEN GTText
            ELSE PsnrOf(Decode(image_views[i].path),
                        Decode(image_views[gt_index[1]].path))

C2_AllOrdersLabelled ==
    /\ [](C2_Premise /\ C2_AllHandled => C2_Labels)
    /\ [][(/\ on_image_load_main_thread
           /\ ~Head(afterq).late
           /\ image_views[Head(afterq).index].future = "FINISHED"
           /\ C2_Premise)
             => error' = ""]_vars

\* C3: menu_set_gt(index) on a decoded pane while the decode of another pane has
\* not finished raises no error, labels pane index GT, gives every other decoded
\* pane its PSNR against pane index and leaves the others without one.
C3_SetGtWhileLoading ==
    [][\A index \in Panes :
          (/\ menu_set_gt(index)
           /\ image_views[index].image # NoImage
           /\ \E j \in Viewed \ {index} : image_views[j].future # "FINISHED")
          => (/\ error' = ""
              /\ image_views'[index].comparison_text = GTText
              /\ \A j \in Viewed \ {index} :
                    IF image_views[j].image # NoImage
                    THEN image_views'[j].comparison_text =
                            PsnrOf(image_views[j].image, image_views[index].image)
                    ELSE image_views'[j].comparison_text.kind # "PSNR")]_vars

\* C4: a view whose decode has succeeded, whose worker has returned and whose
\* callback has run (nothing of this decode is left to be scheduled) holds the
\* image, and its PSNR if a decoded ground truth is designated.
C4_Done(i) ==
    /\ image_views[i].present
    /\ image_views[i].future = "FINISHED"
    /\ Decode(image_views[i].path) # NoImage
    /\ \A k \in DOMAIN afterq : afterq[k].index = i => afterq[k].late

C4_CompletionStoresImage ==
    \A i \in Panes :
        C4_Done(i) =>
            /\ image_views[i].image = Decode(image_views[i].path)
            /\ (/\ gt_index # None
                /\ gt_index[1] \in Viewed \ {i}
                /\ image_views[gt_index[1]].image # NoImage)
               => image_views[i].comparison_text.kind = "PSNR"

\* C5: current_key is None exactly when key_list is empty and otherwise an index
\* of key_list, and a step that shrinks the key list to a non-empty one leaves
\* the smaller of the old index and the last index.
C5_Inv ==
    IF key_list = << >> THEN current_key = None
    ELSE /\ current_key # None
         /\ 0 <= current_key[1]
         /\ current_key[1] <= Len(key_list) - 1

C5_Reclamp ==
    (/\ current_key # None
     /\ key_list' # << >>
     /\ Len(key_list') < Len(key_list))
    => current_key' = Some(IF current_key[1] <= Len(key_list') - 1
                            THEN current_key[1] ELSE Len(key_list') - 1)

C5_CurrentKeyInBounds == []C5_Inv /\ [][C5_Reclamp]_vars

\* a key list of two keys under two sources with the last index current
C5_Witness ==
    /\ Cardinality(Sourced) = 2
    /\ Len(key_list) = 2
    /\ current_key = Some(1)

\* C6: reading a savestate with at least one directory among its sources ends
\* without an exception, with current_key None or an index of key_list and
\* gt_index None or a pane.
C6_ImportInBounds ==
    (phase # "startup" /\ Sourced # {})
    => /\ phase = "running"
       /\ error = ""
       /\ current_key = None
            \/ (0 <= current_key[1] /\ current_key[1] <= Len(key_list) - 1)
       /\ gt_index = None \/ gt_index[1] \in Panes

\* C7: with n keys, next_image leaves (current_key + 1) mod n and prev_image
\* (current_key - 1) mod n, neither changes the key list, and n times either
\* leads back to the current index.
RECURSIVE NextTimes(_, _, _)
NextTimes(k, ck, n) == IF k = 0 THEN ck ELSE NextTimes(k - 1, NextIndex(ck, n), n)

RECURSIVE PrevTimes(_, _, _)
PrevTimes(k, ck, n) == IF k = 0 THEN ck ELSE PrevTimes(k - 1, PrevIndex(ck, n), n)

C7_Step ==
    (key_list # << >> /\ current_key # None)
    => LET n == Len(key_list)
           ck == current_key[1]
       IN /\ next_image => (current_key' = Some((ck + 1) % n) /\ key_list' = key_list)
          /\ prev_image => (current_key' = Some((ck - 1) % n) /\ key_list' = key_list)

C7_Round ==
    (key_list # << >> /\ current_key # None)
    => /\ NextTimes(Len(key_list), current_key[1], Len(key_list)) = current_key[1]
       /\ PrevTimes(Len(key_list), current_key[1], Len(key_list)) = current_key[1]

C7_CyclicNavigation == [][C7_Step]_vars /\ []C7_Round

\* three keys with the last one current and its view just created: next_image
\* or prev_image has acted
C7_Witness ==
    /\ Len(key_list) = 3
    /\ current_key = Some(2)
    /\ Viewed # {}
    /\ \A i \in Viewed : image_views[i].future = "PENDING"

\* C8: with an empty key list next_image and prev_image raise no error and
\* leave the state as it is.
C8_EmptyNavigationNoOp ==
    [][((next_image \/ prev_image) /\ key_list = << >>)
          => (/\ error' = ""
              /\ UNCHANGED << key_list, current_key, image_views, gt_index,
                              zoom, crop_center, dragging >>)]_vars

\* C9: menu_enter_prefix_length on a session without sources raises no error
\* and leaves an empty key list and no current key.
C9_NoSourcesReconcile ==
    [][\A result \in DialogPrefixes :
          (menu_enter_prefix_length(result) /\ Sourced = {})
          => (error' = "" /\ key_list' = << >> /\ current_key' = None)]_vars

\* C10: with a source in some pane, key_list holds exactly the keys that every
\* source has, in strictly ascending order.
C10_KeyListIsSortedIntersection ==
    Sourced # {}
    => /\ \A i \in Sourced : Range(key_list) \subseteq DOMAIN image_sources[i].files
       /\ \A i \in Sourced : \A k \in DOMAIN image_sources[i].files :
             (\A j \in Sourced : k \in DOMAIN image_sources[j].files)
                 => k \in Range(key_list)
       /\ \A k \in 1 .. (Len(key_list) - 1) : LexLess(key_list[k], key_list[k + 1])

\* two sources whose common keys are fewer than the keys of one of them, and
\* more than one
C10_Witness ==
    /\ Cardinality(Sourced) = 2
    /\ Len(key_list) = 2
    /\ \E i \in Sourced : \E k \in DOMAIN image_sources[i].files : k \notin Range(key_list)

\* C11: go_to_key, next_image and prev_image on a non-empty key list leave
\* zoom 1.0, crop_center (0.5, 0.5) and no drag in progress, whatever they were
\* before, and a motion event while no drag is in progress changes nothing of
\* the viewport.
C11_Navigation ==
    \/ next_image
    \/ prev_image
    \/ \E index \in Panes : menu_go_to_key(index)

C11_NavigationResetsViewport ==
    /\ [][(C11_Navigation /\ key_list # << >> /\ current_key # None)
             => (zoom' = One /\ crop_center' = << Half, Half >> /\ ~dragging')]_vars
    /\ [][\A point \in MousePoints :
             (do_drag(point) /\ ~dragging)
             => UNCHANGED << zoom, crop_center, dragging >>]_vars

\* the viewport is reset on the last key while the position of an earlier
\* button press, made with the centre moved, is still stored
C11_Witness ==
    /\ current_key = Some(2)
    /\ zoom = One
    /\ crop_center = << Half, Half >>
    /\ ~dragging
    /\ start_drag_crop_center[1] \notin {0, Half}

\* C12: zoom is within 1.0 and 100.0, both coordinates of crop_center are
\* within 0.5/zoom and 1 - 0.5/zoom, and at zoom 1.0 crop_center is (0.5, 0.5).
C12_ViewportInBounds ==
    /\ ZoomMin <= zoom
    /\ zoom <= ZoomMax
    /\ \A k \in {1, 2} :
          /\ half_crop_size(zoom) <= crop_center[k]
          /\ crop_center[k] <= One - half_crop_size(zoom)
    /\ zoom = One => crop_center = << Half, Half >>

\* the wheel has zoomed to 100.0 in the middle of a drag that moved the centre
\* to the right
C12_Witness ==
    /\ zoom = ZoomMax
    /\ dragging
    /\ crop_center[1] > Half

\* C20: a wheel event that zooms in leaves min(100.0, zoom * 1.1) and one that
\* zooms out leaves max(1.0, zoom / 1.1).
C20_ZoomSteps ==
    [][\A event \in WheelEvents :
          on_zoom(event) =>
              /\ WheelDelta(event) > 0 => zoom' = Min(ZoomMax, RDiv(zoom * 11, 10))
              /\ WheelDelta(event) < 0 => zoom' = Max(ZoomMin, RDiv(zoom * 10, 11))]_vars

\* C13: menu_change_view with a path that is no directory raises an error and
\* leaves the sources, the key list, the current key, the ground truth, the
\* views and the viewport as they were.
C13_InvalidPathChangesNothing ==
    [][\A index \in Panes, path \in Paths :
          (menu_change_view(index, path) /\ ~isdir(path))
          => /\ error' # ""
             /\ UNCHANGED << image_sources, key_list, current_key, gt_index,
                             image_views, zoom, crop_center, dragging >>]_vars

\* the assignment of a path that is no directory has just failed in a session
\* with two sources and a current key
C13_Witness ==
    /\ error = "AssertionError"
    /\ Cardinality(Sourced) = 2
    /\ current_key # None

\* C14: once every decode of the active key has ended and every callback has
\* run, with the decode of some pane failed, that pane has no image and no
\* PSNR label, and menu_set_gt on any pane raises no error and gives the pane
\* of the failed decode no PSNR label.
C14_Failed(i) ==
    /\ image_views[i].present
    /\ image_views[i].future = "FINISHED"
    /\ Decode(image_views[i].path) = NoImage

C14_Settled ==
    /\ afterq = << >>
    /\ StaleTotal(stale) = 0
    /\ \A i \in Viewed : image_views[i].future = "FINISHED"

C14_FailedDecodeIsHarmless ==
    /\ [](\A i \in Panes :
            C14_Failed(i) => /\ image_views[i].image = NoImage
                             /\ image_views[i].comparison_text.kind # "PSNR")
    /\ [][\A index \in Panes :
             (/\ menu_set_gt(index)
              /\ C14_Settled
              /\ \E i \in Viewed : C14_Failed(i))
             => /\ error' = ""
                /\ \A i \in Viewed :
                      C14_Failed(i) => image_views'[i].comparison_text.kind # "PSNR"]_vars

\* C15: with the image of every view decoded and stored and some other pane
\* showing the same bytes as pane index, menu_set_gt(index) raises no error and
\* leaves every other pane with a label.
C15_IdenticalImagesLabelled ==
    [][\A index \in Panes :
          (/\ menu_set_gt(index)
           /\ index \in Viewed
           /\ \A i \in Viewed : image_views[i].image # NoImage
           /\ \E i \in Viewed \ {index} : image_views[i].image = image_views[index].image)
          => /\ error' = ""
             /\ \A i \in Viewed \ {index} :
                   image_views'[i].comparison_text.kind # "None"]_vars

\* C16: when menu_set_gt(index) has returned no other pane is labelled GT, and
\* a PSNR label of another pane is the PSNR against the image of pane index.
C16_GroundTruthRelabels ==
    [][\A index \in Panes :
          (menu_set_gt(index) /\ error' = "")
          => \A i \in Viewed \ {index} :
                LET text == image_views'[i].comparison_text
                IN /\ text.kind # "GT"
                   /\ text.kind = "PSNR"
                      => /\ image_views'[index].image # NoImage
                         /\ text = PsnrOf(image_views'[i].image,
                                          image_views'[index].image)]_vars

\* C17: a source replacement or prefix length change that leaves no common key
\* leaves no current key and no view, and a completion callback that runs
\* while there is no current key raises no error and leaves every pane
\* without a view.
C17_Reconcile ==
    \/ \E index \in Panes, path \in Dirs : menu_change_view(index, path)
    \/ \E result \in DialogPrefixes : menu_enter_prefix_length(result)

C17_EmptyStateIgnoresCompletions ==
    /\ [][(C17_Reconcile /\ error' = "" /\ key_list' = << >>)
             => (current_key' = None /\ \A i \in Panes : ~image_views'[i].present)]_vars
    /\ [][(on_image_load_main_thread /\ current_key = None)
             => (error' = "" /\ \A i \in Panes : ~image_views'[i].present)]_vars

\* C18: a pane has a view exactly when it has a source and there is a current
\* key, and when menu_change_view, menu_enter_prefix_length, menu_go_to_key,
\* next_image or prev_image has returned, the view of every pane is a new one
\* for the file its source has for the current key.
C18_Operation ==
    \/ \E index \in Panes, path \in Dirs : menu_change_view(index, path)
    \/ \E result \in DialogPrefixes : menu_enter_prefix_length(result)
    \/ \E index \in Panes : menu_go_to_key(index)
    \/ next_image
    \/ prev_image

C18_ViewsAreOfCurrentKey ==
    /\ [](\A p \in Panes :
            image_views[p].present <=> (image_sources[p].present /\ current_key # None))
    /\ [][(C18_Operation /\ error' = "")
             => \A p \in Panes :
                   image_views'[p].present
                   => image_views'[p] =
                         ImageView(get_file(image_sources'[p],
                                            key_list'[current_key'[1] + 1]))]_vars

\* two panes have new views while a decode of a replaced view is still running
C18_Witness ==
    /\ current_key # None
    /\ Cardinality(Viewed) = 2
    /\ StaleTotal(stale) > 0
    /\ \A p \in Viewed : image_views[p].future = "PENDING"

\* C19: a PSNR label that a handler which raises no error gives a pane whose
\* image is as long as the ground-truth image rests on the sum over all
\* positions of the squared difference of the two bytes, taken in the integers.
RECURSIVE C19_SumOfSquares(_, _, _)
C19_SumOfSquares(c, r, k) ==
    IF k = 0 THEN 0
    ELSE (c[k] - r[k]) * (c[k] - r[k]) + C19_SumOfSquares(c, r, k - 1)

C19_MeanSquaredErrorIsExact ==
    [][\A i \in Panes :
          LET text == image_views'[i].comparison_text
              image == image_views'[i].image
          IN (/\ error' = ""
              /\ text # image_views[i].comparison_text
              /\ text.kind = "PSNR"
              /\ gt_index' # None
              /\ gt_index'[1] \in Panes
              /\ Len(image_views'[gt_index'[1]].image) = Len(image))
             => /\ text.n = Len(image)
                /\ text.sum = C19_SumOfSquares(image, image_views'[gt_index'[1]].image,
                                               Len(image))]_vars

====
